---------------------------- MODULE Spec2Model ----------------------------
(***************************************************************************)
(* A model of check-malicious.js, the npm supply-chain scanner: manifest   *)
(* discovery, lock-file resolution and synthesis, the two lock parsers,    *)
(* the batched OSV query loop, classification, cleanup and the exit code.  *)
(*                                                                         *)
(* JavaScript strings are TLA+ strings (TLC evaluates Len, \o, SubSeq,     *)
(* Head and Tail on them).  undefined / null / '' of a string field are    *)
(* all the empty string: the code only ever tests such fields for          *)
(* truthiness.  A JS Map is the sequence of its <<key, value>> entries in  *)
(* insertion order.  A path is <<directory index, file name>>.             *)
(***************************************************************************)
EXTENDS Integers, Sequences, FiniteSets, TLC

(***************************************************************************)
(* Bounds of the model.                                                    *)
(***************************************************************************)
MaxDirs == 2         \* directories under the scanned root
MaxBatches == 1      \* full batches in the large lock files of BatchInit
MaxVulns == 2        \* advisories in one result slot (ClassifyInit)
MaxLines == 3        \* lines of a yarn.lock (YarnInit)
MaxPackages == 2     \* keys of the `packages` map of a lock file (LockInit)

(***************************************************************************)
(* String.prototype methods used by the program.                           *)
(***************************************************************************)
charAt(s, k) == IF 1 <= k /\ k <= Len(s) THEN SubSeq(s, k, k) ELSE ""

\* The characters of s at positions a..b that exist.
slice(s, a, b) ==
    SubSeq(s, IF a < 1 THEN 1 ELSE a, IF b > Len(s) THEN Len(s) ELSE b)

startsWith(s, p) == Len(s) >= Len(p) /\ SubSeq(s, 1, Len(p)) = p

endsWith(s, p) == Len(s) >= Len(p) /\ SubSeq(s, Len(s) - Len(p) + 1, Len(s)) = p

includes(s, p) == \E k \in 0..(Len(s) - Len(p)) : SubSeq(s, k + 1, k + Len(p)) = p

lowerChar(c) ==
    LET up == "ABCDEFGHIJKLMNOPQRSTUVWXYZ"
        lo == "abcdefghijklmnopqrstuvwxyz"
    IN  IF \E k \in 1..26 : charAt(up, k) = c
        THEN charAt(lo, CHOOSE k \in 1..26 : charAt(up, k) = c)
        ELSE c

RECURSIVE toLowerCase(_)
toLowerCase(s) == IF s = "" THEN "" ELSE lowerChar(Head(s)) \o toLowerCase(Tail(s))

(***************************************************************************)
(* Map: set(name, v) keeps the position of an existing key and appends a   *)
(* new one; fromSets is the map left by a sequence of set() calls          *)
(* (first-occurrence order, last value), written without recursion so      *)
(* that it evaluates on maps of a thousand entries.                        *)
(***************************************************************************)
mapHas(m, name) == \E k \in 1..Len(m) : m[k][1] = name

mapGet(m, name) == m[CHOOSE k \in 1..Len(m) : m[k][1] = name][2]

mapSet(m, name, v) ==
    IF mapHas(m, name)
    THEN [k \in 1..Len(m) |-> IF m[k][1] = name THEN <<name, v>> ELSE m[k]]
    ELSE Append(m, <<name, v>>)

mapKeys(m) == [k \in 1..Len(m) |-> m[k][1]]

fromSets(sets) ==
    LET n == Len(sets)
        first == SelectSeq([k \in 1..n |-> k],
                           LAMBDA k : \A j \in 1..(k - 1) : sets[j][1] # sets[k][1])
        last(name) == CHOOSE k \in 1..n :
                          /\ sets[k][1] = name
                          /\ \A j \in (k + 1)..n : sets[j][1] # name
    IN  [p \in 1..Len(first) |-> <<sets[first[p]][1], sets[last(sets[first[p]][1])][2]>>]


(***************************************************************************)
(* Paths and the file system.  fs is the set of paths that exist.          *)
(***************************************************************************)
NoPath == <<>>

join(dir, name) == <<dir, name>>

existsSync(files, p) == p \in files

\* lockFile.replace(/\.(json|lock)$/, '.json')
replaceExt(p) ==
    LET name == p[2]
        stem == SubSeq(name, 1, Len(name) - 5)
    IN  IF endsWith(name, ".json") \/ endsWith(name, ".lock")
        THEN <<p[1], stem \o ".json">>
        ELSE p

(***************************************************************************)
(* findPackageJsonFiles: the entries of the root are the directories       *)
(* 1..Len(tree), tree[d] the name of the d-th; each holds package.json or  *)
(* not.  The result is the sequence of the directories whose package.json  *)
(* is found, in entry order.                                               *)
(***************************************************************************)
findPackageJsonFiles(tree, files) ==
    SelectSeq([d \in 1..Len(tree) |-> d],
              LAMBDA d : /\ ~(tree[d] = "node_modules" \/ startsWith(tree[d], "."))
                         /\ join(d, "package.json") \in files)

(***************************************************************************)
(* generateLockFile.  npm and yarn are what the two subprocesses do:       *)
(* ok is exit status 0 (execSync does not throw), writes is whether the    *)
(* lock file is on disk afterwards.  The result carries the returned path, *)
(* the file system left behind and which subprocesses were run.            *)
(***************************************************************************)
generateLockFile(dir, files, npm, yarn) ==
    LET packageLockPath == join(dir, "package-lock.json")
        yarnLockPath == join(dir, "yarn.lock")
        afterNpm == IF npm.writes THEN files \cup {packageLockPath} ELSE files
        afterYarn == IF yarn.writes THEN afterNpm \cup {yarnLockPath} ELSE afterNpm
    IN  IF existsSync(files, packageLockPath) \/ existsSync(files, yarnLockPath)
        THEN [ret |-> IF existsSync(files, packageLockPath)
                      THEN packageLockPath ELSE yarnLockPath,
              fs |-> files, npmRun |-> FALSE, yarnRun |-> FALSE]
        ELSE IF npm.ok
        THEN [ret |-> IF existsSync(afterNpm, packageLockPath)
                      THEN packageLockPath ELSE NoPath,
              fs |-> afterNpm, npmRun |-> TRUE, yarnRun |-> FALSE]
        ELSE IF yarn.ok
        THEN [ret |-> IF existsSync(afterYarn, yarnLockPath)
                      THEN yarnLockPath ELSE NoPath,
              fs |-> afterYarn, npmRun |-> TRUE, yarnRun |-> TRUE]
        ELSE [ret |-> NoPath, fs |-> afterYarn, npmRun |-> TRUE, yarnRun |-> TRUE]

(***************************************************************************)
(* parsePackageLock.  lockData is the JSON document: valid (JSON.parse     *)
(* does not throw), dependencies a sequence of [name, version,             *)
(* dependencies] nodes in key order, packages a sequence of [key, version] *)
(* in key order; an absent member is the empty sequence.  The parser's     *)
(* result is [ok, deps]: ok is FALSE when it throws.                       *)
(***************************************************************************)
RECURSIVE extractDeps(_)
extractDeps(dependencies) ==
    IF dependencies = <<>> THEN <<>>
    ELSE LET info == Head(dependencies)
         IN  <<<<info.name, IF info.version # "" THEN info.version ELSE "unknown">>>>
             \o (IF info.dependencies # <<>> THEN extractDeps(info.dependencies) ELSE <<>>)
             \o extractDeps(Tail(dependencies))

\* key.replace(/^node_modules\//, '')
stripInstallDir(key) ==
    IF startsWith(key, "node_modules/") THEN slice(key, 14, Len(key)) ELSE key

packagesSets(packages) ==
    LET kept == SelectSeq(packages,
                          LAMBDA e : /\ e.key # ""
                                     /\ stripInstallDir(e.key) # ""
                                     /\ ~includes(stripInstallDir(e.key), "node_modules"))
    IN  [k \in 1..Len(kept) |->
            <<stripInstallDir(kept[k].key),
              IF kept[k].version # "" THEN kept[k].version ELSE "unknown">>]

parsePackageLock(lockData) ==
    IF ~lockData.valid THEN [ok |-> FALSE, deps |-> <<>>]
    ELSE [ok |-> TRUE,
          deps |-> fromSets(extractDeps(lockData.dependencies)
                            \o packagesSets(lockData.packages))]

(***************************************************************************)
(* parseYarnLock.  The two regular expressions are matched as the regex    *)
(* engine matches them; each returns its capture group, or "" when the     *)
(* line does not match (a capture is never empty: both groups are `+`).    *)
(***************************************************************************)
isSpace(c) == c \in {" ", "\t", "\r"}

\* The character classes of the two regular expressions:
\* \s ("space"), [^@\s] ("name") and [^"] ("unquoted").
inClass(c, class) ==
    CASE class = "space" -> isSpace(c)
      [] class = "name" -> c # "@" /\ ~isSpace(c)
      [] class = "unquoted" -> c # "\""

\* The length of the longest run of characters of s from position from on
\* that are all in the class.
runLength(s, from, class) ==
    CHOOSE r \in 0..(Len(s) - from + 1) :
        /\ \A j \in from..(from + r - 1) : inClass(charAt(s, j), class)
        /\ (from + r <= Len(s) => ~inClass(charAt(s, from + r), class))

\* (@?[^@\s]+)@[^"]*"?:$ matched at position from of line
headerFrom(line, from) ==
    LET scope == IF charAt(line, from) = "@" THEN 1 ELSE 0
        r == runLength(line, from + scope, "name")
        at == from + scope + r
        rest == slice(line, at + 1, Len(line) - 1)
        body == IF endsWith(rest, "\"") THEN SubSeq(rest, 1, Len(rest) - 1) ELSE rest
    IN  IF /\ r >= 1
           /\ at < Len(line)
           /\ charAt(line, at) = "@"
           /\ endsWith(line, ":")
           /\ ~includes(body, "\"")
        THEN slice(line, from, at - 1)
        ELSE ""

\* line.match(/^"?(@?[^@\s]+)@[^"]*"?:$/): the optional quote is tried
\* first as consumed, then as absent.
packageMatch(line) ==
    IF startsWith(line, "\"") /\ headerFrom(line, 2) # ""
    THEN headerFrom(line, 2)
    ELSE headerFrom(line, 1)

\* version\s+"([^"]+)" matched at position from of line
versionFrom(line, from) ==
    LET sp == from + 7
        w == runLength(line, sp, "space")
        open == sp + w
        c == runLength(line, open + 1, "unquoted")
    IN  IF /\ slice(line, from, from + 6) = "version"
           /\ w >= 1
           /\ charAt(line, open) = "\""
           /\ c >= 1
           /\ charAt(line, open + 1 + c) = "\""
        THEN slice(line, open + 1, open + c)
        ELSE ""

\* line.match(/version\s+"([^"]+)"/): the leftmost position that matches
versionMatch(line) ==
    LET hits == {k \in 1..Len(line) : versionFrom(line, k) # ""}
    IN  IF hits = {} THEN ""
        ELSE versionFrom(line, CHOOSE k \in hits : \A j \in hits : k <= j)

\* A turn that records the version and keeps the pending package.
yarnStepNoClear(st, line) ==
    IF packageMatch(line) # ""
    THEN [deps |-> st.deps, currentPackage |-> packageMatch(line)]
    ELSE IF st.currentPackage # "" /\ includes(line, "version") /\ versionMatch(line) # ""
    THEN [deps |-> mapSet(st.deps, st.currentPackage, versionMatch(line)),
          currentPackage |-> st.currentPackage]
    ELSE st

\* One turn of the loop over the lines; st is [deps, currentPackage].
yarnStep(st, line) ==
    IF packageMatch(line) # ""
    THEN [deps |-> st.deps, currentPackage |-> packageMatch(line)]
    ELSE IF st.currentPackage # "" /\ includes(line, "version") /\ versionMatch(line) # ""
    THEN [deps |-> mapSet(st.deps, st.currentPackage, versionMatch(line)),
          currentPackage |-> ""]
    ELSE st

RECURSIVE yarnLoop(_, _)
yarnLoop(st, lines) ==
    IF lines = <<>> THEN st ELSE yarnLoop(yarnStep(st, Head(lines)), Tail(lines))

parseYarnLock(lines) ==
    [ok |-> TRUE, deps |-> yarnLoop([deps |-> <<>>, currentPackage |-> ""], lines).deps]

(***************************************************************************)
(* Classification (main, the loop over the results).  A result slot is     *)
(* [vulns]; an advisory is [id, summary, details].                         *)
(***************************************************************************)
\* The rule without toLowerCase.
isMaliciousCaseSensitive(vuln) ==
    \/ startsWith(vuln.id, "MAL-")
    \/ (vuln.details # "" /\ includes(vuln.details, "malicious"))
    \/ (vuln.summary # "" /\ includes(vuln.summary, "malicious"))

isMalicious(vuln) ==
    \/ startsWith(vuln.id, "MAL-")
    \/ (vuln.details # "" /\ includes(toLowerCase(vuln.details), "malicious"))
    \/ (vuln.summary # "" /\ includes(toLowerCase(vuln.summary), "malicious"))

RECURSIVE vulnLoop(_, _, _)
vulnLoop(vulns, packageName, dependencies) ==
    IF vulns = <<>> THEN <<>>
    ELSE (IF isMalicious(Head(vulns))
          THEN <<[package |-> packageName,
                  version |-> IF mapHas(dependencies, packageName)
                              THEN mapGet(dependencies, packageName) ELSE "",
                  id |-> Head(vulns).id,
                  summary |-> IF Head(vulns).summary # "" THEN Head(vulns).summary
                              ELSE "Malicious package detected"]>>
          ELSE <<>>)
         \o vulnLoop(Tail(vulns), packageName, dependencies)

RECURSIVE slotLoop(_, _, _)
slotLoop(slots, results, dependencies) ==
    IF slots = <<>> THEN <<>>
    ELSE LET k == Head(slots)
             packagesArray == mapKeys(dependencies)
             packageName == IF k <= Len(packagesArray) THEN packagesArray[k] ELSE ""
         IN  vulnLoop(results[k].vulns, packageName, dependencies)
             \o slotLoop(Tail(slots), results, dependencies)

\* The `vulnerabilities` list of one manifest: the slots with advisories,
\* in order, each advisory in order.
classify(results, dependencies) ==
    slotLoop(SelectSeq([k \in 1..Len(results) |-> k],
                       LAMBDA k : Len(results[k].vulns) > 0),
             results, dependencies)

(***************************************************************************)
(* queryOSV.                                                               *)
(***************************************************************************)
batchSize == 1000

toQueries(packages) ==
    [k \in 1..Len(packages) |->
        [package |-> [name |-> packages[k][1], ecosystem |-> "npm"],
         version |-> packages[k][2]]]

min(a, b) == IF a < b THEN a ELSE b

\* A slice that runs one query into the next batch.
batchAtOverlap(qs, i) == SubSeq(qs, i + 1, min(i + batchSize + 1, Len(qs)))

\* queries.slice(i, i + batchSize)
batchAt(qs, i) == SubSeq(qs, i + 1, min(i + batchSize, Len(qs)))

\* results.push(...(result.results || []))
pushResults(results, result) ==
    results \o (IF result.hasResults THEN result.results ELSE <<>>)

\* A promise that resolves with an empty object on a failure.
settleSwallow(event) ==
    IF event.type = "error" \/ ~event.body.json
    THEN [rejected |-> FALSE, value |-> [hasResults |-> FALSE, results |-> <<>>]]
    ELSE [rejected |-> FALSE,
          value |-> [hasResults |-> event.body.hasResults, results |-> event.body.results]]

\* The promise around one request: an 'error' event rejects, an 'end'
\* event resolves with the parsed body or rejects when JSON.parse throws.
settle(event) ==
    IF event.type = "error" \/ ~event.body.json
    THEN [rejected |-> TRUE, value |-> [hasResults |-> FALSE, results |-> <<>>]]
    ELSE [rejected |-> FALSE,
          value |-> [hasResults |-> event.body.hasResults, results |-> event.body.results]]

\* A report that always exits 0.
finalExitCodeZero(found) == 0

finalExitCode(found) == IF found THEN 1 ELSE 0

(***************************************************************************)
(* main, lines 216-226: the lock file of the manifest in dir, found or     *)
(* generated, and the cleanup list.  called is whether generateLockFile    *)
(* was called.                                                             *)
(***************************************************************************)
resolveLock(dir, files, temp, npm, yarn) ==
    LET packageLock == join(dir, "package-lock.json")
        yarnLock == join(dir, "yarn.lock")
        called == ~existsSync(files, packageLock) /\ ~existsSync(files, yarnLock)
        gen == generateLockFile(dir, files, npm, yarn)
        lf == IF existsSync(files, packageLock) THEN packageLock
              ELSE IF existsSync(files, yarnLock) THEN yarnLock
              ELSE gen.ret
        files1 == IF called THEN gen.fs ELSE files
    IN  [lockFile |-> lf,
         fs |-> files1,
         temp |-> IF called /\ lf # NoPath /\ ~existsSync(files1, replaceExt(lf))
                  THEN Append(temp, lf) ELSE temp,
         called |-> called,
         npmRun |-> called /\ gen.npmRun,
         yarnRun |-> called /\ gen.yarnRun]

(***************************************************************************)
(* The remote database: osvDb is a set of [name, version, vulns].  A       *)
(* response body is [json, hasResults, results]: json is whether the body  *)
(* decodes, hasResults whether the decoded object has a `results` member.  *)
(***************************************************************************)
lookup(db, name, version) ==
    IF \E e \in db : e.name = name /\ e.version = version
    THEN (CHOOSE e \in db : e.name = name /\ e.version = version).vulns
    ELSE <<>>

answers(db, batch) ==
    [k \in 1..Len(batch) |->
        [vulns |-> lookup(db, batch[k].package.name, batch[k].version)]]

fullBody(db, batch) == [json |-> TRUE, hasResults |-> TRUE, results |-> answers(db, batch)]

bodies(db, batch) ==
    { fullBody(db, batch),
      [json |-> TRUE, hasResults |-> TRUE,
       results |-> SubSeq(answers(db, batch), 1, Len(batch) - 1)],
      [json |-> TRUE, hasResults |-> FALSE, results |-> <<>>],
      [json |-> FALSE, hasResults |-> FALSE, results |-> <<>>] }

(***************************************************************************)
(* State.                                                                  *)
(***************************************************************************)
VARIABLES
    tree,               \* environment: names of the directories under the root
    fs,                 \* environment: the paths that exist
    lockData,           \* environment: per directory, what package-lock.json holds
    yarnData,           \* environment: per directory, the lines of yarn.lock
    osvDb,              \* environment: the remote database
    rootReadable,       \* environment: readdirSync of the root succeeds
    net,                \* environment: "up", or "silent" (requests never complete)
    pc,                 \* where main stands
    packageJsonFiles,   \* main: the manifests
    m,                  \* main: position of the for loop over the manifests
    file,               \* main: the manifest being processed (relativePath)
    lockFile,           \* main: lockFile
    tempLockFiles,      \* main: tempLockFiles
    dependencies,       \* main: dependencies
    queries,            \* queryOSV: queries
    i,                  \* queryOSV: i
    results,            \* queryOSV: results
    inflight,           \* queryOSV: the batch of the request awaited
    hasVulnerabilities, \* main: hasVulnerabilities
    allFindings,        \* main: allFindings
    exitCode,           \* process exit code, -1 while running
    verdicts,           \* stdout: per manifest, what was printed about it
    final,              \* stdout/stderr: the last report
    requests,           \* history: the batches sent for the current manifest
    sent,               \* history: the number of requests sent in the run
    wellBehaved,        \* history: every response for the current manifest was full
    aligned,            \* history: the manifests classified after full responses only
    resolution,         \* history: what the last lock resolution did
    synthesized,        \* history: the lock files written during the run
    preexisting,        \* history: the paths that existed at the start
    failure             \* history: the first transport/decode failure, if any

envVars == <<tree, lockData, yarnData, osvDb, rootReadable, net, preexisting>>
loopVars == <<packageJsonFiles, m, file, lockFile, tempLockFiles>>
queryVars == <<dependencies, queries, i, results, inflight>>
outVars == <<hasVulnerabilities, allFindings, exitCode, verdicts, final>>
histVars == <<requests, sent, wellBehaved, aligned, resolution, synthesized, failure>>
vars == <<envVars, fs, pc, loopVars, queryVars, outVars, histVars>>

NoResolution == [called |-> FALSE, npmRun |-> FALSE, yarnRun |-> FALSE]
NoFailure == [happened |-> FALSE, m |-> 0, sent |-> 0, verdicts |-> 0]

Range(f) == {f[k] : k \in DOMAIN f}

\* The state after construction, in the environment given by dirs (per
\* directory: name, files, lock, yarn), db, readable and network.
InitIn(dirs, db, readable, network) ==
    /\ tree = [d \in 1..Len(dirs) |-> dirs[d].name]
    /\ fs = UNION {{join(d, f) : f \in dirs[d].files} : d \in 1..Len(dirs)}
    /\ lockData = [d \in 1..Len(dirs) |-> dirs[d].lock]
    /\ yarnData = [d \in 1..Len(dirs) |-> dirs[d].yarn]
    /\ osvDb = db
    /\ rootReadable = readable
    /\ net = network
    /\ pc = "start"
    /\ packageJsonFiles = <<>>
    /\ m = 0
    /\ file = 0
    /\ lockFile = NoPath
    /\ tempLockFiles = <<>>
    /\ dependencies = <<>>
    /\ queries = <<>>
    /\ i = 0
    /\ results = <<>>
    /\ inflight = <<>>
    /\ hasVulnerabilities = FALSE
    /\ allFindings = <<>>
    /\ exitCode = -1
    /\ verdicts = <<>>
    /\ final = ""
    /\ requests = <<>>
    /\ sent = 0
    /\ wellBehaved = TRUE
    /\ aligned = {}
    /\ resolution = NoResolution
    /\ synthesized = {}
    /\ preexisting = UNION {{join(d, f) : f \in dirs[d].files} : d \in 1..Len(dirs)}
    /\ failure = NoFailure

(***************************************************************************)
(* Actions.                                                                *)
(***************************************************************************)
\* main, lines 196-204
Discover ==
    /\ pc = "start"
    /\ IF ~rootReadable
       THEN /\ pc' = "rejected"
            /\ UNCHANGED <<packageJsonFiles, m, exitCode, final>>
       ELSE LET found == findPackageJsonFiles(tree, fs)
            IN  IF Len(found) = 0
                THEN /\ pc' = "exited"
                     /\ exitCode' = 0
                     /\ final' = "Nothing to scan"
                     /\ UNCHANGED <<packageJsonFiles, m>>
                ELSE /\ pc' = "loop"
                     /\ packageJsonFiles' = found
                     /\ m' = 1
                     /\ UNCHANGED <<exitCode, final>>
    /\ UNCHANGED <<envVars, fs, file, lockFile, tempLockFiles, queryVars,
                   hasVulnerabilities, allFindings, verdicts, histVars>>

\* main, lines 211-231: one manifest's lock file
ResolveLock ==
    /\ pc = "loop"
    /\ m <= Len(packageJsonFiles)
    /\ \E npm \in [ok : BOOLEAN, writes : BOOLEAN], yarn \in [ok : BOOLEAN, writes : BOOLEAN] :
        LET dir == packageJsonFiles[m]
            r == resolveLock(dir, fs, tempLockFiles, npm, yarn)
        IN  /\ file' = dir
            /\ lockFile' = r.lockFile
            /\ fs' = r.fs
            /\ tempLockFiles' = r.temp
            /\ resolution' = [called |-> r.called, npmRun |-> r.npmRun, yarnRun |-> r.yarnRun]
            /\ synthesized' = synthesized \cup (r.fs \ fs)
            /\ IF r.lockFile = NoPath
               THEN /\ verdicts' = Append(verdicts, [file |-> dir, verdict |-> "Skipping"])
                    /\ m' = m + 1
                    /\ pc' = "loop"
               ELSE /\ pc' = "parse"
                    /\ UNCHANGED <<verdicts, m>>
    /\ dependencies' = <<>>
    /\ queries' = <<>>
    /\ i' = 0
    /\ results' = <<>>
    /\ inflight' = <<>>
    /\ requests' = <<>>
    /\ wellBehaved' = TRUE
    /\ UNCHANGED <<envVars, packageJsonFiles, hasVulnerabilities, allFindings,
                   exitCode, final, sent, aligned, failure>>

\* main, lines 233-255, and queryOSV, lines 135-145
ParseLock ==
    /\ pc = "parse"
    /\ LET parsed == IF endsWith(lockFile[2], "package-lock.json")
                     THEN parsePackageLock(lockData[file])
                     ELSE parseYarnLock(yarnData[file])
       IN  IF ~parsed.ok
           THEN /\ verdicts' = Append(verdicts, [file |-> file, verdict |-> "Parse error"])
                /\ m' = m + 1
                /\ pc' = "loop"
                /\ UNCHANGED <<dependencies, queries>>
           ELSE IF Len(parsed.deps) = 0
           THEN /\ verdicts' = Append(verdicts, [file |-> file, verdict |-> "No dependencies"])
                /\ m' = m + 1
                /\ pc' = "loop"
                /\ dependencies' = parsed.deps
                /\ UNCHANGED queries
           ELSE /\ dependencies' = parsed.deps
                /\ queries' = toQueries(parsed.deps)
                /\ pc' = "query"
                /\ UNCHANGED <<verdicts, m>>
    /\ UNCHANGED <<envVars, fs, packageJsonFiles, file, lockFile, tempLockFiles,
                   i, results, inflight, hasVulnerabilities, allFindings, exitCode,
                   final, histVars>>

\* queryOSV, lines 147-177: one request goes out
SendBatch ==
    /\ pc = "query"
    /\ i < Len(queries)
    /\ inflight' = batchAt(queries, i)
    /\ requests' = Append(requests, batchAt(queries, i))
    /\ sent' = sent + 1
    /\ pc' = "await"
    /\ UNCHANGED <<envVars, fs, loopVars, dependencies, queries, i, results, outVars,
                   wellBehaved, aligned, resolution, synthesized, failure>>

\* The promise of the request awaited settles on event; lines 179-186.
Deliver(event) ==
    /\ pc = "await"
    /\ net = "up"
    /\ failure' = IF ~failure.happened /\ (event.type = "error" \/ ~event.body.json)
                  THEN [happened |-> TRUE, m |-> m, sent |-> sent, verdicts |-> Len(verdicts)]
                  ELSE failure
    /\ IF settle(event).rejected
       THEN /\ pc' = "rejected"
            /\ UNCHANGED <<results, i, wellBehaved>>
       ELSE /\ results' = pushResults(results, settle(event).value)
            /\ i' = i + batchSize
            /\ wellBehaved' = (wellBehaved /\ event.type = "end"
                               /\ event.body = fullBody(osvDb, inflight))
            /\ pc' = "query"
    /\ UNCHANGED <<envVars, fs, loopVars, dependencies, queries, inflight, outVars,
                   requests, sent, aligned, resolution, synthesized>>

\* queryOSV, lines 161-172: the response ended
OnEnd ==
    /\ pc = "await"
    /\ \E body \in bodies(osvDb, inflight) : Deliver([type |-> "end", body |-> body])

\* queryOSV, line 174: the request failed
OnError ==
    /\ pc = "await"
    /\ Deliver([type |-> "error",
                body |-> [json |-> FALSE, hasResults |-> FALSE, results |-> <<>>]])

\* queryOSV, line 188, and main, lines 257-294
Classify ==
    /\ pc = "query"
    /\ i >= Len(queries)
    /\ LET vulnerabilities == classify(results, dependencies)
       IN  /\ hasVulnerabilities' = (hasVulnerabilities \/ Len(vulnerabilities) > 0)
           /\ allFindings' = allFindings \o
                  [k \in 1..Len(vulnerabilities) |->
                      [file |-> file,
                       package |-> vulnerabilities[k].package,
                       version |-> vulnerabilities[k].version,
                       id |-> vulnerabilities[k].id,
                       summary |-> vulnerabilities[k].summary]]
           /\ verdicts' = Append(verdicts,
                  [file |-> file,
                   verdict |-> IF Len(vulnerabilities) > 0 THEN "MALICIOUS" ELSE "Clean"])
    /\ aligned' = IF wellBehaved THEN aligned \cup {file} ELSE aligned
    /\ m' = m + 1
    /\ pc' = "loop"
    /\ UNCHANGED <<envVars, fs, packageJsonFiles, file, lockFile, tempLockFiles,
                   queryVars, exitCode, final, requests, sent, wellBehaved, resolution,
                   synthesized, failure>>

\* main, lines 296-302
Cleanup ==
    /\ pc = "loop"
    /\ m > Len(packageJsonFiles)
    /\ fs' = fs \ Range(tempLockFiles)
    /\ pc' = "report"
    /\ UNCHANGED <<envVars, loopVars, queryVars, outVars, histVars>>

\* main, lines 304-318
Report ==
    /\ pc = "report"
    /\ final' = IF hasVulnerabilities THEN "MALICIOUS PACKAGES DETECTED" ELSE "All clear"
    /\ exitCode' = finalExitCode(hasVulnerabilities)
    /\ pc' = "exited"
    /\ UNCHANGED <<envVars, fs, loopVars, queryVars, hasVulnerabilities, allFindings,
                   verdicts, histVars>>

\* main().catch, lines 321-324
MainCatch ==
    /\ pc = "rejected"
    /\ final' = "Fatal error"
    /\ exitCode' = 1
    /\ pc' = "exited"
    /\ UNCHANGED <<envVars, fs, loopVars, queryVars, hasVulnerabilities, allFindings,
                   verdicts, histVars>>

Next ==
    \/ Discover
    \/ ResolveLock
    \/ ParseLock
    \/ SendBatch
    \/ OnEnd
    \/ OnError
    \/ Classify
    \/ Cleanup
    \/ Report
    \/ MainCatch

(***************************************************************************)
(* Environments.                                                           *)
(***************************************************************************)
Dir(name, files, lock, yarn) == [name |-> name, files |-> files, lock |-> lock, yarn |-> yarn]

Pkg(key, version) == [key |-> key, version |-> version]

Node(name, version, deps) == [name |-> name, version |-> version, dependencies |-> deps]

Lock(deps, packages) == [valid |-> TRUE, dependencies |-> deps, packages |-> packages]

LockInvalid == [valid |-> FALSE, dependencies |-> <<>>, packages |-> <<>>]

LockTwo ==
    Lock(<<>>, <<Pkg("", "1.0.0"),
                 Pkg("node_modules/colors-update", "2.0.0"),
                 Pkg("node_modules/lodash", "4.17.21")>>)

LockEmpty == Lock(<<>>, <<Pkg("", "1.0.0")>>)

YarnOne == <<"# yarn lockfile v1", "", "colors-update@^2.0.0:", "  version \"2.0.0\"">>

Adv(id, summary, details) == [id |-> id, summary |-> summary, details |-> details]

\* The advisories the remote may hold, each with whether it is one the
\* classification rule names: id prefix MAL-, or the word malicious, in any
\* letter case, in details or summary.
AdvisoryPool ==
    { [adv |-> Adv("MAL-2024-1234", "", ""), malicious |-> TRUE],
      [adv |-> Adv("GHSA-xxxx", "Contains Malicious code", ""), malicious |-> TRUE],
      [adv |-> Adv("GHSA-yyyy", "Denial of service", ""), malicious |-> FALSE],
      [adv |-> Adv("GHSA-dddd", "", "MALICIOUS payload"), malicious |-> TRUE],
      [adv |-> Adv("GHSA-both", "Typosquat", "this is malicious"), malicious |-> TRUE],
      [adv |-> Adv("mal-0001", "Prototype pollution", ""), malicious |-> FALSE],
      [adv |-> Adv("XMAL-0002", "", "malice suspected"), malicious |-> FALSE],
      [adv |-> Adv("GHSA-zzzz", "Not malicous", "ReDoS"), malicious |-> FALSE] }

Advisories == {a.adv : a \in AdvisoryPool}

AdvMal == Adv("MAL-2024-1234", "", "")

AdvDos == Adv("GHSA-yyyy", "Denial of service", "")

Entry(name, version, vulns) == [name |-> name, version |-> version, vulns |-> vulns]

MainDbs ==
    { {Entry("colors-update", "2.0.0", <<AdvMal>>)},
      {Entry("lodash", "4.17.21", <<AdvDos>>)} }

Manifest == "package.json"

MainDirs ==
    { Dir("api", {Manifest, "package-lock.json"}, LockTwo, <<>>),
      Dir("api", {Manifest, "package-lock.json"}, LockInvalid, <<>>),
      Dir("api", {Manifest, "package-lock.json"}, LockEmpty, <<>>),
      Dir("web", {Manifest, "yarn.lock"}, LockInvalid, YarnOne),
      Dir("new", {Manifest}, LockTwo, YarnOne),
      Dir("node_modules", {Manifest, "package-lock.json"}, LockTwo, <<>>) }

SeqsUpTo(S, lo, hi) == UNION {[1..n -> S] : n \in lo..hi}

\* The scanner started in a tree of up to MaxDirs directories.
Init ==
    \E dirs \in SeqsUpTo(MainDirs, 0, MaxDirs), db \in MainDbs,
       env \in {<<TRUE, "up">>, <<TRUE, "silent">>, <<FALSE, "up">>} :
        InitIn(dirs, db, env[1], env[2])

Spec == Init /\ [][Next]_vars

\* The same trees without yarn.lock content (npm projects; a yarn.lock
\* that yarn writes there is empty).
FairDirs ==
    { Dir("api", {Manifest, "package-lock.json"}, LockTwo, <<>>),
      Dir("api", {Manifest, "package-lock.json"}, LockInvalid, <<>>),
      Dir("new", {Manifest}, LockTwo, <<>>),
      Dir("node_modules", {Manifest, "package-lock.json"}, LockTwo, <<>>) }

FairInit ==
    \E dirs \in SeqsUpTo(FairDirs, 0, MaxDirs), db \in MainDbs,
       env \in {<<TRUE, "up">>, <<TRUE, "silent">>, <<FALSE, "up">>} :
        InitIn(dirs, db, env[1], env[2])

\* Every step of the program that can be taken eventually is: the event
\* loop runs what is ready.  A request on a silent network has no event.
FairSpec == FairInit /\ [][Next]_vars /\ WF_vars(Next)

(***************************************************************************)
(* Large lock files: the first directory holds a v3 lock of n packages     *)
(* p1..pn, n around the multiples of batchSize.                            *)
(***************************************************************************)
Digit(d) == SubSeq("0123456789", d + 1, d + 1)

RECURSIVE DecStr(_)
DecStr(n) == IF n < 10 THEN Digit(n) ELSE DecStr(n \div 10) \o Digit(n % 10)

BigLock(n) == Lock(<<>>, [k \in 1..n |-> Pkg("node_modules/p" \o DecStr(k), "1.0.0")])

BatchSizes == {1} \cup {k * batchSize + r : k \in 1..MaxBatches, r \in {0, 1}}

BatchDbs == {{Entry("p" \o DecStr(b), "1.0.0", <<AdvMal>>)} : b \in {1, batchSize, batchSize + 1}}

BatchInit ==
    \E n \in BatchSizes, db \in BatchDbs :
        InitIn(<<Dir("big", {Manifest, "package-lock.json"}, BigLock(n), <<>>)>>
               \o [d \in 1..(MaxDirs - 1) |->
                      Dir("api", {Manifest, "package-lock.json"}, LockTwo, <<>>)],
               db \cup {Entry("lodash", "4.17.21", <<AdvDos>>)}, TRUE, "up")

BatchSpec == BatchInit /\ [][Next]_vars

(***************************************************************************)
(* Classification: one manifest, and the remote holds any list of up to    *)
(* MaxVulns advisories for one of its packages.                            *)
(***************************************************************************)
ClassifyInit ==
    \E vulns \in SeqsUpTo(Advisories, 1, MaxVulns) :
        InitIn(<<Dir("api", {Manifest, "package-lock.json"}, LockTwo, <<>>)>>,
               {Entry("colors-update", "2.0.0", vulns)}, TRUE, "up")

ClassifySpec == ClassifyInit /\ [][Next]_vars

(***************************************************************************)
(* yarn.lock files: one manifest beside a yarn.lock of up to MaxLines      *)
(* lines, each line one of YarnLinePool.  A line's kind, name and version  *)
(* are what the yarn-classic format says the line is.                      *)
(***************************************************************************)
YarnLinePool ==
    { [text |-> "colors-update@^2.0.0:", kind |-> "header", name |-> "colors-update", version |-> ""],
      [text |-> "\"@s/b@^1.0.0\":", kind |-> "header", name |-> "@s/b", version |-> ""],
      [text |-> "  version \"2.0.0\"", kind |-> "version", name |-> "", version |-> "2.0.0"],
      [text |-> "  version \"1.0.0\"", kind |-> "version", name |-> "", version |-> "1.0.0"],
      [text |-> "", kind |-> "other", name |-> "", version |-> ""],
      [text |-> "  resolved \"https://r/b#1\"", kind |-> "other", name |-> "", version |-> ""],
      [text |-> "  version:", kind |-> "other", name |-> "", version |-> ""] }

YarnInit ==
    \E lines \in SeqsUpTo({l.text : l \in YarnLinePool}, 0, MaxLines) :
        InitIn(<<Dir("web", {Manifest, "yarn.lock"}, LockInvalid, lines)>>,
               {Entry("colors-update", "2.0.0", <<AdvMal>>)}, TRUE, "up")

YarnSpec == YarnInit /\ [][Next]_vars

(***************************************************************************)
(* package-lock.json files: one manifest beside a lock file that is a v3   *)
(* `packages` map of up to MaxPackages keys, a v1 `dependencies` tree      *)
(* nested two deep, or (v2) both.                                          *)
(***************************************************************************)
Versions == {"1.0.0", "2.0.0", ""}

PackageKeys ==
    {"", "node_modules/a", "node_modules/b", "node_modules/a/node_modules/b",
     "node_modules/@s/c"}

\* The members of a JSON object have distinct keys.
uniqueKeys(keys) == \A j, k \in DOMAIN keys : j # k => keys[j] # keys[k]

PackageMaps ==
    {ps \in SeqsUpTo([key : PackageKeys, version : Versions], 0, MaxPackages) :
        uniqueKeys([k \in DOMAIN ps |-> ps[k].key])}

Leaves == {Node(n, v, <<>>) : n \in {"a", "b"}, v \in {"1.0.0", ""}}

Nodes == {Node(n, v, ds) : n \in {"a", "b"}, v \in {"1.0.0", "2.0.0"},
                           ds \in SeqsUpTo(Leaves, 0, 1)}

Trees == {t \in SeqsUpTo(Nodes, 0, 2) : uniqueKeys([k \in DOMAIN t |-> t[k].name])}

LockPool ==
    {Lock(<<>>, ps) : ps \in PackageMaps}
    \cup {Lock(t, <<>>) : t \in Trees}
    \cup {Lock(<<Node("a", "1.0.0", <<Node("b", "2.0.0", <<>>)>>)>>, ps) :
              ps \in SeqsUpTo([key : PackageKeys, version : Versions], 1, 1)}

LockInit ==
    \E lock \in LockPool :
        InitIn(<<Dir("api", {Manifest, "package-lock.json"}, lock, <<>>)>>,
               {Entry("b", "2.0.0", <<AdvMal>>)}, TRUE, "up")

LockSpec == LockInit /\ [][Next]_vars

(***************************************************************************)
(* Properties.                                                             *)
(***************************************************************************)
lastVerdict == IF Len(verdicts) = 0 THEN "" ELSE verdicts[Len(verdicts)].verdict

\* The loop body of the current manifest ran to its end: its results were
\* classified and its locals are still in place.
Classified == pc = "loop" /\ lastVerdict \in {"Clean", "MALICIOUS"}

\* The current manifest's lock file named name was parsed without error.
Parsed(name) ==
    /\ lockFile # NoPath
    /\ lockFile[2] = name
    /\ \/ pc \in {"query", "await"}
       \/ pc = "loop" /\ lastVerdict \in {"No dependencies", "Clean", "MALICIOUS"}

count(seq, P(_)) == Cardinality({k \in DOMAIN seq : P(seq[k])})

\* C1: once a batch request fails with a network error or an undecodable
\* body, the run is aborting or has aborted with exit code 1: no further
\* request is sent, no further manifest is started or reported on, and
\* "All clear" is never printed.
C1_FailureAborts ==
    failure.happened =>
        /\ pc \in {"rejected", "exited"}
        /\ (pc = "exited" => exitCode = 1 /\ final = "Fatal error")
        /\ final # "All clear"
        /\ m = failure.m
        /\ sent = failure.sent
        /\ Len(verdicts) = failure.verdicts

\* C1 witness: the run exited after a failed batch that had a later batch
\* and a later manifest behind it.
C1_Witness ==
    /\ failure.happened
    /\ pc = "exited"
    /\ i + 1000 < Len(queries)
    /\ m < Len(packageJsonFiles)

\* C2: the exit code is 1 exactly when a Finding was produced or a
\* run-fatal error (discovery, transport or decode) occurred, and 0 in
\* every other terminated run; at the final report hasVulnerabilities is
\* true exactly when allFindings is non-empty.
C2_ExitCode ==
    /\ (pc = "exited" =>
            /\ exitCode \in {0, 1}
            /\ (exitCode = 1 <=>
                    (Len(allFindings) > 0 \/ failure.happened \/ ~rootReadable)))
    /\ (pc # "exited" => exitCode = -1)
    /\ (pc = "report" => (hasVulnerabilities <=> Len(allFindings) > 0))

\* C2 witness: a run of two manifests, one skipped for want of a lock file
\* and one whose lock file did not parse, exited 0.
C2_Witness ==
    /\ pc = "exited"
    /\ exitCode = 0
    /\ \E v \in Range(verdicts) : v.verdict = "Skipping"
    /\ \E v \in Range(verdicts) : v.verdict = "Parse error"

\* C3: when queryOSV returns for a DependencySet of size N, it has sent
\* ceil(N/1000) requests, the r-th carrying the queries of packages
\* 1000(r-1)+1 .. min(1000r, N) in order; given full responses, result k
\* is the remote's answer for the k-th package, and every Finding names a
\* package and version for which the remote holds that advisory.
C3_BatchesAligned ==
    /\ (pc = "query" /\ i >= Len(queries)) =>
          LET N == Len(dependencies)
          IN  /\ Len(requests) = (N + 999) \div 1000
              /\ \A r \in 1..Len(requests) :
                    /\ Len(requests[r]) = min(1000, N - 1000 * (r - 1))
                    /\ \A j \in 1..Len(requests[r]) :
                          /\ requests[r][j].package.name = dependencies[1000 * (r - 1) + j][1]
                          /\ requests[r][j].version = dependencies[1000 * (r - 1) + j][2]
                          /\ requests[r][j].package.ecosystem = "npm"
              /\ wellBehaved =>
                    /\ Len(results) = N
                    /\ \A k \in 1..N :
                          results[k].vulns = lookup(osvDb, dependencies[k][1], dependencies[k][2])
    /\ \A f \in Range(allFindings) :
          f.file \in aligned =>
              \E a \in Range(lookup(osvDb, f.package, f.version)) : a.id = f.id

\* C3 witness: a manifest of more than 1000 packages was classified after
\* full responses, with a Finding on its 1001st package.
C3_Witness ==
    /\ Classified
    /\ file \in aligned
    /\ Len(requests) >= 2
    /\ \E f \in Range(allFindings) : f.file = file /\ f.package = dependencies[1001][1]

\* C4: after a manifest is classified, each advisory of each result slot
\* has one Finding per occurrence if it is malicious by the rule (id prefix
\* MAL-, or "malicious" in any letter case in details or summary) and none
\* otherwise, and there are no other Findings.
C4_Classification ==
    Classified =>
        LET pkg(k) == IF k <= Len(dependencies) THEN dependencies[k][1] ELSE ""
            truth(id) == (CHOOSE a \in AdvisoryPool : a.adv.id = id).malicious
            mine == SelectSeq(allFindings, LAMBDA f : f.file = file)
        IN  /\ \A k \in 1..Len(results) : \A a \in Range(results[k].vulns) :
                  count(mine, LAMBDA f : f.package = pkg(k) /\ f.id = a.id)
                      = IF truth(a.id)
                        THEN count(results[k].vulns, LAMBDA v : v = a)
                        ELSE 0
            /\ \A f \in Range(mine) :
                  \E k \in 1..Len(results) : \E a \in Range(results[k].vulns) :
                      f.package = pkg(k) /\ f.id = a.id

\* C4 witness: a slot held a mixed-case "Malicious" summary advisory and a
\* non-malicious one, and exactly the first became a Finding.
C4_Witness ==
    /\ Classified
    /\ Len(results) >= 1
    /\ Len(results[1].vulns) = 2
    /\ Len(allFindings) = 1
    /\ allFindings[1].id = "GHSA-xxxx"
    /\ \E a \in Range(results[1].vulns) : a.id = "GHSA-yyyy"

\* C5: at the cleanup phase a lock file is in tempLockFiles and deleted
\* if and only if this run synthesized it; no pre-existing file is deleted.
C5_CleanupExactlySynthesized ==
    pc = "report" =>
        /\ \A p \in synthesized : p \in Range(tempLockFiles) /\ p \notin fs
        /\ \A p \in Range(tempLockFiles) : p \in synthesized
        /\ \A p \in preexisting : p \in fs

\* C6: generateLockFile returns null only after npm and then yarn were
\* both run and neither lock file is on disk.
C6_NullOnlyAfterBoth ==
    (resolution.called /\ lockFile = NoPath /\ pc = "loop") =>
        /\ resolution.npmRun
        /\ resolution.yarnRun
        /\ join(file, "package-lock.json") \notin fs
        /\ join(file, "yarn.lock") \notin fs

\* C7: every run eventually reaches process exit, also when a request
\* never completes.
C7_Terminates == <>(pc = "exited")

RECURSIVE treeOccurrences(_)
treeOccurrences(dependencies_) ==
    IF dependencies_ = <<>> THEN {}
    ELSE {<<Head(dependencies_).name, Head(dependencies_).version>>}
         \cup treeOccurrences(Head(dependencies_).dependencies)
         \cup treeOccurrences(Tail(dependencies_))

\* The text after the last "node_modules/" of key.
lastSegment(key) ==
    LET at == CHOOSE k \in 1..Len(key) :
                  /\ slice(key, k, k + 12) = "node_modules/"
                  /\ \A j \in (k + 1)..Len(key) : slice(key, j, j + 12) # "node_modules/"
    IN  slice(key, at + 13, Len(key))

\* The <<name, version>> occurrences of a lock file, at any depth.
occurrences(lock) ==
    treeOccurrences(lock.dependencies)
    \cup {<<lastSegment(e.key), e.version>> :
              e \in {x \in Range(lock.packages) : includes(x.key, "node_modules/")}}

\* C8: every package name occurring at any depth of a package-lock.json
\* has an entry in the DependencySet, with the version of one of its
\* occurrences ('unknown' for an occurrence without a version).
C8_EveryNameCovered ==
    Parsed("package-lock.json") =>
        \A o \in occurrences(lockData[file]) :
            /\ mapHas(dependencies, o[1])
            /\ \E o2 \in occurrences(lockData[file]) :
                  /\ o2[1] = o[1]
                  /\ mapGet(dependencies, o[1]) = IF o2[2] # "" THEN o2[2] ELSE "unknown"

\* C9: the DependencySet of a yarn.lock has one entry per package name
\* that has a header line followed, with no header or version line in
\* between, by a version line; the entry's version is that of the last
\* such header's version line; nothing else is recorded, so no header
\* yields more than one entry.
C9_YarnStateMachine ==
    Parsed("yarn.lock") =>
        LET lines == yarnData[file]
            n == Len(lines)
            tag(k) == CHOOSE l \in YarnLinePool : l.text = lines[k]
            headers == {k \in 1..n : tag(k).kind = "header"}
            closes(h, w) ==
                /\ h < w
                /\ tag(w).kind = "version"
                /\ \A j \in (h + 1)..(w - 1) : tag(j).kind = "other"
            closed == {h \in headers : \E w \in 1..n : closes(h, w)}
            final_ == {h \in closed :
                          \A g \in closed : tag(g).name = tag(h).name => g <= h}
            versionOf(h) == tag(CHOOSE w \in 1..n : closes(h, w)).version
        IN  /\ Range(dependencies) = {<<tag(h).name, versionOf(h)>> : h \in final_}
            /\ Len(dependencies) = Cardinality(final_)
            /\ Len(dependencies) <= Cardinality(headers)

\* C9 witness: a header replaced by a second header before any version
\* line got no entry, and the second header got the version.
C9_Witness ==
    /\ Parsed("yarn.lock")
    /\ Len(yarnData[file]) = 3
    /\ yarnData[file][1] = "colors-update@^2.0.0:"
    /\ yarnData[file][2] = "\"@s/b@^1.0.0\":"
    /\ dependencies = <<<<"@s/b", "1.0.0">>>>

\* C10: a manifest is reported Clean only if the responses supplied a
\* result slot for every one of its queries.
C10_CleanOnlyIfAllAnswered ==
    (Classified /\ lastVerdict = "Clean") => Len(results) = Len(dependencies)

=============================================================================
